---- MODULE Spec2Model ----
(***************************************************************************)
(* Model of run-nextflow-tests/utils.py: the value parser (parse_value,    *)
(* _parse_list_value, _parse_dict_value), the config parser (parse_config  *)
(* with its masking steps and assign_value) and the diff engine            *)
(* (diff_json); and of sort_key of build-and-deploy-docs/action.py.        *)
(*                                                                         *)
(* A Python str is a sequence of one-character strings; indices in the     *)
(* helper operators are Python's 0-based indices, Slice(s, i, j) is        *)
(* s[i:j].                                                                 *)
(***************************************************************************)
EXTENDS Integers, Sequences, FiniteSets, TLC

VARIABLES
    pc,               \* position of the running call
    value_str,        \* parse_value: the argument
    parsed,           \* parse_value: the returned node (or the raised error)
    alpha,            \* diff_json: first argument
    beta,             \* diff_json: second argument
    results,          \* diff_json: the returned list of triples
    config_str,       \* parse_config: the text argument
    dated_fields,     \* parse_config: the caller's list
    caller_version_fields,  \* parse_config: the caller's list
    version_fields,   \* parse_config: the local copy (line 161)
    version_str,      \* parse_config: the detected version, NoVersion for None
    lines,            \* parse_config: config_str.splitlines()
    index,            \* parse_config: number of lines consumed by the loop
    line,             \* parse_config: the stripped current line
    key,              \* parse_config: group "key" of the current line
    value,            \* parse_config: the current line's value text
    escaped_key,      \* parse_config: the unescaped key
    config,           \* parse_config: the tree under construction / returned
    exc,              \* parse_config: class of the raised exception, "" if none
    tags,             \* the strings a max(..., key=sort_key) call goes through
    strings_high,     \* sort_key: the flag argument
    sort_keys         \* the keys sort_key returned so far (or its raised error)

vars == <<pc, value_str, parsed, alpha, beta, results, config_str,
          dated_fields, caller_version_fields, version_fields, version_str,
          lines, index, line, key, value, escaped_key, config, exc,
          tags, strings_high, sort_keys>>

----------------------------------------------------------------------------
(* Characters and strings *)

BS == "\\"
SP == " "
LF == "\n"
CR == "\r"
TAB == "\t"

Whitespace == {SP, TAB, LF, CR}
Digits == <<"0", "1", "2", "3", "4", "5", "6", "7", "8", "9">>
DigitSet == {Digits[i] : i \in 1..Len(Digits)}
Letters == {"a", "b", "c", "d", "e", "f", "g", "h", "i", "j", "k", "l", "m",
            "n", "o", "p", "q", "r", "s", "t", "u", "v", "w", "x", "y", "z",
            "A", "B", "C", "D", "E", "F", "G", "H", "I", "J", "K", "L", "M",
            "N", "O", "P", "Q", "R", "S", "T", "U", "V", "W", "X", "Y", "Z"}

IsSpace(c) == c \in Whitespace
IsDigit(c) == c \in DigitSet
IsWord(c) == c \in Letters \cup DigitSet \cup {"_"}

\* Code-point order of the characters the model uses.
CodePoints == <<TAB, LF, CR, SP, "(", ")", ",", "-", ".", "0", "1", "2", "3", "4",
                "5", "6", "7", "8", "9", ":", ";", "=", "@",
                "A", "B", "C", "D", "E", "F", "G", "H", "I", "J", "K", "L",
                "M", "N", "O", "P", "Q", "R", "S", "T", "U", "V", "W", "X",
                "Y", "Z", "[", BS, "]", "_",
                "a", "b", "c", "d", "e", "f", "g", "h", "i", "j", "k", "l",
                "m", "n", "o", "p", "q", "r", "s", "t", "u", "v", "w", "x",
                "y", "z", "{", "}">>
ord(c) == CHOOSE i \in 1..Len(CodePoints) : CodePoints[i] = c

\* s[i:j] for 0 <= i, j
Slice(s, i, j) == SubSeq(s, i + 1, IF j > Len(s) THEN Len(s) ELSE j)
\* s[i:]
SliceFrom(s, i) == SubSeq(s, i + 1, Len(s))
\* s.startswith(prefix, i)
StartsWithAt(s, prefix, i) ==
    /\ i + Len(prefix) <= Len(s)
    /\ \A k \in 1..Len(prefix) : s[i + k] = prefix[k]

\* str < str (lexicographic by code point)
RECURSIVE StrLess(_, _)
StrLess(s, t) ==
    IF t = <<>> THEN FALSE
    ELSE IF s = <<>> THEN TRUE
    ELSE IF s[1] = t[1] THEN StrLess(Tail(s), Tail(t))
    ELSE ord(s[1]) < ord(t[1])

\* str.strip()
RECURSIVE lstrip(_)
lstrip(s) == IF s # <<>> /\ IsSpace(s[1]) THEN lstrip(Tail(s)) ELSE s
RECURSIVE rstrip(_)
rstrip(s) ==
    IF s # <<>> /\ IsSpace(s[Len(s)]) THEN rstrip(SubSeq(s, 1, Len(s) - 1))
    ELSE s
strip(s) == rstrip(lstrip(s))

\* str.find(sep, i): 0-based index of the first occurrence at or after i,
\* -1 when there is none
RECURSIVE find(_, _, _)
find(s, sep, i) ==
    IF i + Len(sep) > Len(s) THEN -1
    ELSE IF StartsWithAt(s, sep, i) THEN i
    ELSE find(s, sep, i + 1)

\* str.split(sep)
RECURSIVE split(_, _)
split(s, sep) ==
    LET at == find(s, sep, 0) IN
    IF at = -1 THEN <<s>>
    ELSE <<Slice(s, 0, at)>> \o split(SliceFrom(s, at + Len(sep)), sep)

\* str.split(sep, maxsplit=1)
split_max1(s, sep) ==
    LET at == find(s, sep, 0) IN
    IF at = -1 THEN <<s>>
    ELSE <<Slice(s, 0, at), SliceFrom(s, at + Len(sep))>>

\* str.replace(old, new) for non-empty old
RECURSIVE replace(_, _, _)
replace(s, old, new) ==
    LET at == find(s, old, 0) IN
    IF at = -1 THEN s
    ELSE Slice(s, 0, at) \o new \o replace(SliceFrom(s, at + Len(old)), old, new)

\* str(int) for a non-negative int
RECURSIVE int_str(_)
int_str(n) ==
    IF n < 10 THEN <<Digits[n + 1]>>
    ELSE int_str(n \div 10) \o <<Digits[(n % 10) + 1]>>

----------------------------------------------------------------------------
(* The module's regular expressions *)

Script == <<"S", "c", "r", "i", "p", "t">>
RunClosure == <<"_", "r", "u", "n", "_", "c", "l", "o", "s", "u", "r", "e">>
Ljava == <<"L", "j", "a", "v", "a", ".">>
SemiAt == <<";", "@">>
dec0ded == <<"d", "e", "c", "0", "d", "e", "d">>
ClosureValue == <<"c", "l", "o", "s", "u", "r", "e", "(", ")">>

\* CLOSURE_RE.match(s): ^Script\S+_run_closure
CLOSURE_RE_match(s) ==
    /\ StartsWithAt(s, Script, 0)
    /\ \E i \in (Len(Script) + 1)..Len(s) :
          /\ StartsWithAt(s, RunClosure, i)
          /\ \A k \in (Len(Script) + 1)..i : ~IsSpace(s[k])

\* "$" without re.MULTILINE: the end of s, or just before a final newline
DollarEnd(s) == IF s # <<>> /\ s[Len(s)] = LF THEN Len(s) - 1 ELSE Len(s)

\* Index of the ";@" that ends group 1 of POINTER_RE, -1 without a match:
\* ^(\[?Ljava\..*;@)(\w+)$
PointerAt(s) ==
    LET start == IF s # <<>> /\ s[1] = "[" THEN 1 ELSE 0
        end == DollarEnd(s)
        J == {j \in 0..Len(s) :
                /\ j >= start + Len(Ljava)
                /\ StartsWithAt(s, SemiAt, j)
                /\ j + 2 < end
                /\ \A k \in (j + 3)..end : IsWord(s[k])
                /\ \A k \in 1..j : s[k] # LF}
    IN  IF StartsWithAt(s, Ljava, start) /\ J # {}
        THEN CHOOSE j \in J : TRUE
        ELSE -1
POINTER_RE_match(s) == PointerAt(s) # -1
\* POINTER_RE.sub(r"\1dec0ded", s) on a matching s
POINTER_RE_sub(s) ==
    Slice(s, 0, PointerAt(s) + 2) \o dec0ded \o SliceFrom(s, DollarEnd(s))

\* ESCAPE_RE.sub(r"\1\2", s): ([^\\])\\([ =:]), leftmost non-overlapping
RECURSIVE ESCAPE_RE_sub(_)
ESCAPE_RE_sub(s) ==
    IF s = <<>> THEN <<>>
    ELSE IF /\ Len(s) >= 3
            /\ s[1] # BS
            /\ s[2] = BS
            /\ s[3] \in {SP, "=", ":"}
         THEN <<s[1], s[3]>> \o ESCAPE_RE_sub(SliceFrom(s, 3))
         ELSE <<s[1]>> \o ESCAPE_RE_sub(Tail(s))

DateSentinel == <<"1", "9", "9", "7", "0", "7", "0", "4", "T",
                  "1", "6", "5", "6", "5", "5", "Z">>
VersionSentinel == <<"V", "E", "R", ".", "S", "I", ".", "O", "N">>

\* DATE_RE matches at 0-based position i of s: \d{8}T\d{6}Z
DATE_RE_at(s, i) ==
    /\ i + 16 <= Len(s)
    /\ \A k \in 1..8 : IsDigit(s[i + k])
    /\ s[i + 9] = "T"
    /\ \A k \in 10..15 : IsDigit(s[i + k])
    /\ s[i + 16] = "Z"

\* DATE_RE.sub("19970704T165655Z", s)
RECURSIVE DATE_RE_sub(_)
DATE_RE_sub(s) ==
    IF s = <<>> THEN <<>>
    ELSE IF DATE_RE_at(s, 0)
         THEN DateSentinel \o DATE_RE_sub(SliceFrom(s, 16))
         ELSE <<s[1]>> \o DATE_RE_sub(Tail(s))

----------------------------------------------------------------------------
(* Nodes: what parse_value returns and diff_json compares.  Every node is  *)
(* a record of the same shape; kind says which fields carry the value.     *)
(* A dict keeps its keys in insertion order (keys[i] maps to vals[i]).     *)
(* A raised exception is a node whose kind is the exception's class.       *)

Node(k, s, b, items, ks, vs) ==
    [kind |-> k, str |-> s, bool |-> b, items |-> items, keys |-> ks, vals |-> vs]
Scalar(s) == Node("str", s, FALSE, <<>>, <<>>, <<>>)
Bool(b) == Node("bool", <<>>, b, <<>>, <<>>, <<>>)
Sequence(items) == Node("list", <<>>, FALSE, items, <<>>, <<>>)
Mapping(ks, vs) == Node("dict", <<>>, FALSE, <<>>, ks, vs)
None == Node("None", <<>>, FALSE, <<>>, <<>>, <<>>)
Raise(cls) == Node(cls, <<>>, FALSE, <<>>, <<>>, <<>>)

Exceptions == {"AssertionError", "IndexError", "ValueError", "TypeError"}
IsError(n) == n.kind \in Exceptions

\* Position of key k in dict d, 0 when absent (keys are str or bool nodes)
KeyIndex(d, k) ==
    IF \E i \in 1..Len(d.keys) : d.keys[i] = k
    THEN CHOOSE i \in 1..Len(d.keys) : d.keys[i] = k
    ELSE 0
\* k in d
HasKey(d, k) == KeyIndex(d, k) # 0
\* d[k]
GetItem(d, k) == d.vals[KeyIndex(d, k)]
\* d[k] = v
SetItem(d, k, v) ==
    IF HasKey(d, k)
    THEN Mapping(d.keys, [d.vals EXCEPT ![KeyIndex(d, k)] = v])
    ELSE Mapping(Append(d.keys, k), Append(d.vals, v))

----------------------------------------------------------------------------
(* Value parser *)

CommaSpace == <<",", SP>>
EscapedEquals == <<BS, "=">>
TrueToken == <<"t", "r", "u", "e">>
FalseToken == <<"f", "a", "l", "s", "e">>

RECURSIVE parse_value(_)
RECURSIVE ListLoop(_, _, _, _, _)
RECURSIVE DictLoop(_, _, _)

\* The for loop of _parse_list_value from position i on, then the code after
\* it; stack is a sequence of expected closers, value the elements so far.
ListLoop(list_str, i, first_index, stack, value_) ==
    IF i < Len(list_str)
    THEN LET character == list_str[i + 1] IN
         IF character = "{"
         THEN ListLoop(list_str, i + 1, first_index, Append(stack, "}"), value_)
         ELSE IF character = "("
         THEN ListLoop(list_str, i + 1, first_index, Append(stack, ")"), value_)
         ELSE IF character \in {"}", ")"}
         THEN IF stack = <<>> THEN Raise("IndexError")
              ELSE IF stack[Len(stack)] # character THEN Raise("AssertionError")
              ELSE ListLoop(list_str, i + 1, first_index,
                            SubSeq(stack, 1, Len(stack) - 1), value_)
         ELSE IF character = "," /\ stack = <<>>
         THEN LET element == parse_value(Slice(list_str, first_index, i)) IN
              IF IsError(element) THEN element
              ELSE ListLoop(list_str, i + 1, i + 1, stack, Append(value_, element))
         ELSE ListLoop(list_str, i + 1, first_index, stack, value_)
    ELSE LET last_index == IF list_str = <<>> THEN 0 ELSE Len(list_str) - 1 IN
         IF stack # <<>> THEN Raise("AssertionError")
         ELSE IF last_index > first_index
         THEN LET element == parse_value(SliceFrom(list_str, first_index)) IN
              IF IsError(element) THEN element
              ELSE Sequence(Append(value_, element))
         ELSE Sequence(value_)

_parse_list_value(s) ==
    ListLoop(Slice(s, 1, Len(s) - 1), 0, 0, <<>>, <<>>)

\* The for loop of _parse_dict_value over tokens[i..], value_ the dict so far
DictLoop(tokens, i, value_) ==
    IF i > Len(tokens) THEN value_
    ELSE LET parts == split_max1(tokens[i], EscapedEquals) IN
         IF Len(parts) # 2 THEN Raise("ValueError")
         ELSE LET token_value == parse_value(parts[2])
                  token_key == parse_value(parts[1])
              IN  IF IsError(token_value) THEN token_value
                  ELSE IF IsError(token_key) THEN token_key
                  ELSE IF token_key.kind \in {"list", "dict"}
                  THEN Raise("TypeError")
                  ELSE DictLoop(tokens, i + 1,
                                SetItem(value_, token_key, token_value))

_parse_dict_value(s) ==
    DictLoop(split(Slice(s, 1, Len(s) - 1), CommaSpace), 1, Mapping(<<>>, <<>>))

parse_value(s) ==
    IF CLOSURE_RE_match(s) THEN Scalar(ClosureValue)
    ELSE IF POINTER_RE_match(s) THEN Scalar(POINTER_RE_sub(s))
    ELSE IF s # <<>> /\ s[1] = "[" /\ s[Len(s)] = "]" THEN _parse_list_value(s)
    ELSE IF s # <<>> /\ s[1] = "{" /\ s[Len(s)] = "}" THEN _parse_dict_value(s)
    ELSE IF s = TrueToken THEN Bool(TRUE)
    ELSE IF s = FalseToken THEN Bool(FALSE)
    ELSE Scalar(ESCAPE_RE_sub(strip(s)))

----------------------------------------------------------------------------
(* Calls of parse_value.  The tokens are the three shapes the serialized   *)
(* properties carry: plain text with escapes, list literals and map        *)
(* literals, the latter two joined from element tokens with ", ".          *)

MaxLen == 4
MaxElems == 2

RECURSIVE Join(_, _)
Join(strs, sep) ==
    IF strs = <<>> THEN <<>>
    ELSE IF Len(strs) = 1 THEN strs[1]
    ELSE strs[1] \o sep \o Join(Tail(strs), sep)

SeqsUpTo(S, n) == UNION {[1..m -> S] : m \in 0..n}

ScalarAlphabet == {"a", BS, "=", SP, ":"}
ScalarTokens == SeqsUpTo(ScalarAlphabet, MaxLen)

\* A closure, an object pointer and an array pointer as Groovy prints them
ClosureToken == Script \o <<"X">> \o RunClosure \o <<"1", "@", "a">>
PointerPrefixes ==
    {Ljava \o <<"X">> \o SemiAt, <<"[">> \o Ljava \o <<"X">> \o SemiAt}
Address == <<"1", "a">>
SpecialTokens == {ClosureToken} \cup {p \o Address : p \in PointerPrefixes}

ElemTokens ==
    { <<"1">>,
      <<"a", "b">>,
      TrueToken,
      FalseToken,
      <<"[", "3", ",", SP, "4", "]">>,
      <<"{", "a", BS, "=", "2", "}">>,
      <<"{", "a", BS, "=", "2", ",", SP, "b", BS, "=", "[", "3", ",", SP, "4", "]", "}">> }
EntryKeys == {<<"a">>, <<"b">>}
Entries == {<<k, v>> : k \in EntryKeys, v \in ElemTokens}

ListToken(elems) == <<"[">> \o Join(elems, CommaSpace) \o <<"]">>
EntryToken(entry) == entry[1] \o EscapedEquals \o entry[2]
MapToken(entries) ==
    <<"{">> \o Join([i \in 1..Len(entries) |-> EntryToken(entries[i])], CommaSpace)
           \o <<"}">>

\* A closure or pointer alone, before and after a short element
SpecialElemSeqs ==
    {<<s>> : s \in SpecialTokens}
    \cup {<<s, x>> : s \in SpecialTokens, x \in {<<"1">>, <<"a", "b">>}}
    \cup {<<x, s>> : s \in SpecialTokens, x \in {<<"1">>, <<"a", "b">>}}
ElemSeqs == SeqsUpTo(ElemTokens, MaxElems) \cup SpecialElemSeqs
EntrySeqs == SeqsUpTo(Entries, MaxElems)
ListTokens == {ListToken(elems) : elems \in ElemSeqs}
MapTokens == {MapToken(entries) : entries \in EntrySeqs}
\* Literals whose "{" or "(" is left open or closed by the wrong character
UnbalancedTokens ==
    { <<"[", "a", ",", SP, "(", "b", "]">>,
      <<"[", "a", "}", "]">>,
      <<"[", "{", "a", ")", "]">>,
      <<"[", "(", "a", "]">>,
      <<"{", "a", BS, "=", "(", "b", "}">>,
      <<"{", "a", BS, "=", "b", ")", "}">>,
      <<"{", "a", BS, "=", "{", "b", "}">> }
WellFormedTokens ==
    ScalarTokens \cup SpecialTokens \cup ListTokens \cup MapTokens
Tokens == WellFormedTokens \cup UnbalancedTokens

\* version_str = None (a line feed never occurs in group 1 of the search)
NoVersion == <<LF>>

\* Values of the variables a call does not use
IdleValue == /\ value_str = <<>> /\ parsed = None
IdleDiff == /\ alpha = None /\ beta = None /\ results = <<>>
IdleConfig ==
    /\ config_str = <<>> /\ dated_fields = <<>> /\ caller_version_fields = <<>>
    /\ version_fields = <<>> /\ version_str = NoVersion /\ lines = <<>>
    /\ index = 0 /\ line = <<>> /\ key = <<>> /\ value = <<>>
    /\ escaped_key = <<>> /\ config = None /\ exc = ""

IdleSort == /\ tags = <<>> /\ strings_high = FALSE /\ sort_keys = <<>>

valueVars == <<value_str, parsed>>
sortVars == <<tags, strings_high, sort_keys>>
diffVars == <<alpha, beta, results>>
configVars == <<config_str, dated_fields, caller_version_fields,
                version_fields, version_str, lines, index, line, key, value,
                escaped_key, config, exc>>

InitValue ==
    /\ pc = "parse_value"
    /\ value_str \in Tokens
    /\ parsed = None
    /\ IdleDiff
    /\ IdleConfig
    /\ IdleSort

\* parsed = parse_value(value_str)
ParseValue ==
    /\ pc = "parse_value"
    /\ parsed' = parse_value(value_str)
    /\ pc' = "returned"
    /\ UNCHANGED <<value_str, diffVars, configVars, sortVars>>

NextValue == ParseValue
SpecValue == InitValue /\ [][NextValue]_vars

----------------------------------------------------------------------------
(* Diff engine.  The trees compared are those parse_config returns after   *)
(* its JSON round trip: dict keys are str.                                 *)

\* alpha == beta: dicts compare without regard to key order
RECURSIVE NodeEq(_, _)
NodeEq(a, b) ==
    IF a.kind # b.kind THEN FALSE
    ELSE IF a.kind = "dict"
    THEN /\ Len(a.keys) = Len(b.keys)
         /\ \A i \in 1..Len(a.keys) :
               /\ HasKey(b, a.keys[i])
               /\ NodeEq(a.vals[i], GetItem(b, a.keys[i]))
    ELSE IF a.kind = "list"
    THEN /\ Len(a.items) = Len(b.items)
         /\ \A i \in 1..Len(a.items) : NodeEq(a.items[i], b.items[i])
    ELSE a = b

Triple(path, before, after) == [path |-> path, before |-> before, after |-> after]

\* Sub-results passed up without the prefix of the level they come from
Prefixed_dropped(prefix, sub) == sub

\* The sub_result loops: every triple of sub with prefix put before its path
Prefixed(prefix, sub) ==
    [i \in 1..Len(sub) |-> Triple(prefix \o sub[i].path, sub[i].before, sub[i].after)]

\* itertools.zip_longest: the item at 0-based index i, None past the end
ItemOrNone(items, i) == IF i < Len(items) THEN items[i + 1] ELSE None

RECURSIVE diff_json(_, _)
RECURSIVE DiffAlphaItems(_, _, _)
RECURSIVE DiffBetaItems(_, _, _)
RECURSIVE DiffZipLongest(_, _, _)

\* The first loop with the keys of alpha alone reported after those of beta
DiffAlphaItems_common(a, b, i) ==
    IF i > Len(a.keys) THEN <<>>
    ELSE LET key_ == a.keys[i]
             value_ == a.vals[i]
         IN  (IF HasKey(b, key_)
              THEN Prefixed(<<".">> \o key_.str, diff_json(value_, GetItem(b, key_)))
              ELSE <<>>)
             \o DiffAlphaItems(a, b, i + 1)
             \o (IF HasKey(b, key_) THEN <<>>
                 ELSE <<Triple(key_.str, value_, None)>>)

\* for key, value in alpha.items(), from the i-th item on
DiffAlphaItems(a, b, i) ==
    IF i > Len(a.keys) THEN <<>>
    ELSE LET key_ == a.keys[i]
             value_ == a.vals[i]
         IN  (IF HasKey(b, key_)
              THEN Prefixed(<<".">> \o key_.str, diff_json(value_, GetItem(b, key_)))
              ELSE <<Triple(key_.str, value_, None)>>)
             \o DiffAlphaItems(a, b, i + 1)

\* The second loop reporting the keys of beta alone on the side of alpha
DiffBetaItems_sameside(a, b, i) ==
    IF i > Len(b.keys) THEN <<>>
    ELSE (IF ~HasKey(a, b.keys[i])
          THEN <<Triple(b.keys[i].str, b.vals[i], None)>>
          ELSE <<>>)
         \o DiffBetaItems(a, b, i + 1)

\* The second loop left out
DiffBetaItems_none(a, b, i) == <<>>

\* for key, value in beta.items(), from the i-th item on
DiffBetaItems(a, b, i) ==
    IF i > Len(b.keys) THEN <<>>
    ELSE (IF ~HasKey(a, b.keys[i])
          THEN <<Triple(b.keys[i].str, None, b.vals[i])>>
          ELSE <<>>)
         \o DiffBetaItems(a, b, i + 1)

\* zip in place of zip_longest: the loop ends with the shorter sequence
DiffZipLongest_shortest(a, b, i) ==
    IF i >= Len(a.items) \/ i >= Len(b.items) THEN <<>>
    ELSE Prefixed(<<"[">> \o int_str(i) \o <<"]">>,
                  diff_json(ItemOrNone(a.items, i), ItemOrNone(b.items, i)))
         \o DiffZipLongest(a, b, i + 1)

\* for index, (alpha_val, beta_val) in enumerate(zip_longest(alpha, beta))
DiffZipLongest(a, b, i) ==
    IF i >= Len(a.items) /\ i >= Len(b.items) THEN <<>>
    ELSE Prefixed(<<"[">> \o int_str(i) \o <<"]">>,
                  diff_json(ItemOrNone(a.items, i), ItemOrNone(b.items, i)))
         \o DiffZipLongest(a, b, i + 1)

\* Incomparable nodes reported as a removal and an addition
diff_json_split(a, b) ==
    IF NodeEq(a, b) THEN <<>>
    ELSE IF a.kind # b.kind
    THEN <<Triple(<<>>, a, None), Triple(<<>>, None, b)>>
    ELSE IF a.kind = "dict"
    THEN DiffAlphaItems(a, b, 1) \o DiffBetaItems(a, b, 1)
    ELSE IF a.kind = "list" THEN DiffZipLongest(a, b, 0)
    ELSE <<Triple(<<>>, a, b)>>

\* diff_json(alpha, beta)
diff_json(a, b) ==
    IF NodeEq(a, b) THEN <<>>
    ELSE IF a.kind # b.kind THEN <<Triple(<<>>, a, b)>>
    ELSE IF a.kind = "dict"
    THEN DiffAlphaItems(a, b, 1) \o DiffBetaItems(a, b, 1)
    ELSE IF a.kind = "list" THEN DiffZipLongest(a, b, 0)
    ELSE <<Triple(<<>>, a, b)>>

(* Calls of diff_json on pairs of small trees *)

MaxSeqLen == 2

DiffLeaves == {Scalar(<<"1">>), Scalar(<<"2">>)}
DiffKeyOrders == {<<>>, <<"a">>, <<"k">>, <<"a", "k">>, <<"k", "a">>}
MapsOver(X) ==
    UNION {{Mapping([i \in 1..Len(ks) |-> Scalar(<<ks[i]>>)], vs) :
                vs \in [1..Len(ks) -> X]} : ks \in DiffKeyOrders}
ListsOver(X) == {Sequence(items) : items \in SeqsUpTo(X, MaxSeqLen)}
Level1 == DiffLeaves \cup MapsOver(DiffLeaves) \cup ListsOver(DiffLeaves)
Level2 ==
    Level1
    \cup {Mapping(<<Scalar(<<"a">>)>>, <<x>>) : x \in Level1}
    \cup {Mapping(<<Scalar(<<"a">>), Scalar(<<"k">>)>>, <<x, Scalar(<<"1">>)>>) : x \in Level1}
    \cup {Sequence(<<x>>) : x \in Level1}
Level3 == Level2 \cup {Mapping(<<Scalar(<<"k">>)>>, <<x>>) : x \in Level2}
\* Boolean leaves, at the root and one step below it
BoolTrees ==
    { Bool(TRUE), Bool(FALSE),
      Sequence(<<Bool(TRUE)>>),
      Mapping(<<Scalar(<<"a">>)>>, <<Bool(TRUE)>>) }
Trees == Level3 \cup BoolTrees

InitDiff ==
    /\ pc = "diff_json"
    /\ alpha \in Trees
    /\ beta \in Trees
    /\ results = <<>>
    /\ IdleValue
    /\ IdleConfig
    /\ IdleSort

\* results = diff_json(alpha, beta)
Diff ==
    /\ pc = "diff_json"
    /\ results' = diff_json(alpha, beta)
    /\ pc' = "returned"
    /\ UNCHANGED <<alpha, beta, valueVars, configVars, sortVars>>

NextDiff == Diff
SpecDiff == InitDiff /\ [][NextDiff]_vars

----------------------------------------------------------------------------
(* Config parser *)

ManifestWord == <<"m", "a", "n", "i", "f", "e", "s", "t">>
VersionEquals == <<"v", "e", "r", "s", "i", "o", "n", "=">>
ManifestVersion == ManifestWord \o <<".">> \o <<"v", "e", "r", "s", "i", "o", "n">>
JsonObject == <<"j", "s", "o", "n", "_", "o", "b", "j", "e", "c", "t">>

\* x in a_list
InList(x, list) == \E i \in 1..Len(list) : list[i] = x

\* 0-based index of the first line break at or after i, Len(s) without one
RECURSIVE BreakAt(_, _, _)
BreakAt(s, i, breaks) ==
    IF i >= Len(s) THEN Len(s)
    ELSE IF s[i + 1] \in breaks THEN i
    ELSE BreakAt(s, i + 1, breaks)

\* str.splitlines()
RECURSIVE splitlines(_)
splitlines(s) ==
    IF s = <<>> THEN <<>>
    ELSE LET at == BreakAt(s, 0, {LF, CR}) IN
         IF at = Len(s) THEN <<s>>
         ELSE LET skip == IF s[at + 1] = CR /\ at + 1 < Len(s) /\ s[at + 2] = LF
                          THEN 2 ELSE 1
              IN  <<Slice(s, 0, at)>> \o splitlines(SliceFrom(s, at + skip))

\* r"^manifest.version=(.*)$" with re.MULTILINE matches at 0-based position p
ManifestAt(s, p) ==
    /\ p = 0 \/ s[p] = LF
    /\ StartsWithAt(s, ManifestWord, p)
    /\ p + Len(ManifestWord) < Len(s)
    /\ s[p + Len(ManifestWord) + 1] # LF
    /\ StartsWithAt(s, VersionEquals, p + Len(ManifestWord) + 1)

\* re.search(...).group(1), NoVersion when the search returns None
SearchVersion(s) ==
    LET P == {p \in 0..Len(s) : ManifestAt(s, p)} IN
    IF P = {} THEN NoVersion
    ELSE LET p == CHOOSE q \in P : \A r \in P : q <= r
             from == p + Len(ManifestWord) + 1 + Len(VersionEquals)
         IN  Slice(s, from, BreakAt(s, from, {LF}))

\* param_re: ^(?P<key>\S+?[^\\])=(?P<value>.*)$ -- the 0-based index of the
\* "=" that ends group key, -1 when the line does not match
ParamEquals(l) ==
    LET Q == {i \in 2..(Len(l) - 1) :
                /\ l[i + 1] = "="
                /\ l[i] # BS
                /\ \A k \in 1..(i - 1) : ~IsSpace(l[k])}
    IN  IF Q = {} THEN -1 ELSE CHOOSE i \in Q : \A j \in Q : i <= j

EmptyDict == Mapping(<<>>, <<>>)

\* assign_value(closure, key, value): the closure after the call, or the
\* exception it raises
RECURSIVE assign_value(_, _, _)
assign_value(closure, key_, value_) ==
    LET dot == find(key_, <<".">>, 0) IN
    IF dot = -1
    THEN IF key_ # JsonObject
         THEN LET node == parse_value(value_) IN
              IF IsError(node) THEN node
              ELSE IF closure.kind # "dict" THEN Raise("TypeError")
              ELSE SetItem(closure, Scalar(key_), node)
         ELSE closure
    ELSE LET local_key == Scalar(Slice(key_, 0, dot))
             remainder == SliceFrom(key_, dot + 1)
         IN  IF closure.kind # "dict" THEN Raise("TypeError")
             ELSE LET created == IF HasKey(closure, local_key) THEN closure
                                 ELSE SetItem(closure, local_key, EmptyDict)
                      inner == assign_value(GetItem(created, local_key),
                                            remainder, value_)
                  IN  IF IsError(inner) THEN inner
                      ELSE SetItem(created, local_key, inner)

\* The str a JSON object key is written as
JsonKey(k) ==
    IF k.kind = "str" THEN k
    ELSE IF k.bool THEN Scalar(TrueToken) ELSE Scalar(FalseToken)

\* key order of sorted(dct.items()): str by code point, False before True
KeyLess(k1, k2) ==
    IF k1.kind = "str" THEN StrLess(k1.str, k2.str)
    ELSE ~k1.bool /\ k2.bool

\* The positions of d's keys in ascending key order
RECURSIVE SortedPositions(_, _)
SortedPositions(d, todo) ==
    IF todo = {} THEN <<>>
    ELSE LET least == CHOOSE i \in todo :
                         \A j \in todo \ {i} : KeyLess(d.keys[i], d.keys[j])
         IN  <<least>> \o SortedPositions(d, todo \ {least})

\* The tree returned as the loop built it
json_round_trip_asis(node) == node

\* json.loads(json.dumps(node, sort_keys=True))
RECURSIVE json_round_trip(_)
json_round_trip(node) ==
    IF node.kind = "list"
    THEN LET items == [i \in 1..Len(node.items) |-> json_round_trip(node.items[i])] IN
         IF \E i \in 1..Len(items) : IsError(items[i])
         THEN Raise("TypeError")
         ELSE Sequence(items)
    ELSE IF node.kind = "dict"
    THEN IF \E i, j \in 1..Len(node.keys) : node.keys[i].kind # node.keys[j].kind
         THEN Raise("TypeError")
         ELSE LET order == SortedPositions(node, 1..Len(node.keys))
                  vals == [i \in 1..Len(order) |-> json_round_trip(node.vals[order[i]])]
              IN  IF \E i \in 1..Len(vals) : IsError(vals[i])
                  THEN Raise("TypeError")
                  ELSE Mapping([i \in 1..Len(order) |-> JsonKey(node.keys[order[i]])],
                               vals)
    ELSE node

\* Lines 161, 184-185: the local copy of version_fields
LocalVersionFields(s, versioned) ==
    IF SearchVersion(s) # NoVersion THEN Append(versioned, ManifestVersion)
    ELSE versioned

\* The append of line 185 made on the caller's own list
CallerVersionFields_aliased(s, versioned) == LocalVersionFields(s, versioned)

\* Lines 161, 184-185: the caller's list after the call; line 161 rebinds the
\* local name to a copy, so the append of line 185 does not reach it
CallerVersionFields(s, versioned) == versioned

\* Date masking that ignores the field list
DateMasked_unscoped(k, v, dated) == DATE_RE_sub(v)

\* Lines 204-206: the value text after date masking
DateMasked(k, v, dated) ==
    IF InList(k, dated) THEN DATE_RE_sub(v) ELSE v

\* Lines 208-210: the value text after version masking
VersionMasked(k, v, versioned, version) ==
    IF InList(k, versioned) /\ version # NoVersion /\ version # <<>>
    THEN replace(v, version, VersionSentinel)
    ELSE v

\* Lines 192-215 as one evaluation: the loop from the i-th line on and the
\* return; the returned tree or the raised exception
RECURSIVE LoopFrom(_, _, _, _, _, _)
LoopFrom(ls, i, cfg, dated, versioned, version) ==
    IF i > Len(ls) THEN json_round_trip(cfg)
    ELSE LET stripped == strip(ls[i])
             eq == ParamEquals(stripped)
         IN  IF stripped = <<>>
             THEN LoopFrom(ls, i + 1, cfg, dated, versioned, version)
             ELSE IF eq = -1 THEN Raise("ValueError")
             ELSE LET k == ESCAPE_RE_sub(Slice(stripped, 0, eq))
                      v == VersionMasked(
                               k, DateMasked(k, SliceFrom(stripped, eq + 1), dated),
                               versioned, version)
                      assigned == assign_value(cfg, k, v)
                  IN  IF IsError(assigned) THEN assigned
                      ELSE LoopFrom(ls, i + 1, assigned, dated, versioned, version)

\* parse_config(config_str, dated_fields, version_fields) as one evaluation
parse_config(s, dated, versioned) ==
    LoopFrom(splitlines(s), 1, EmptyDict, dated,
             LocalVersionFields(s, versioned), SearchVersion(s))

\* Lines 161-190: copy version_fields, search the manifest version
Start ==
    /\ pc = "parse_config"
    /\ version_str' = SearchVersion(config_str)
    /\ version_fields' = LocalVersionFields(config_str, caller_version_fields)
    /\ config' = EmptyDict
    /\ lines' = splitlines(config_str)
    /\ index' = 0
    /\ caller_version_fields' =
           CallerVersionFields(config_str, caller_version_fields)
    /\ pc' = "loop"
    /\ UNCHANGED <<config_str, dated_fields, line, key, value, escaped_key,
                   exc, valueVars, diffVars, sortVars>>

\* The loop step with a non-matching line passed over instead of raised
NextLine_skip ==
    /\ pc = "loop"
    /\ index < Len(lines)
    /\ index' = index + 1
    /\ LET stripped == strip(lines[index + 1])
           eq == ParamEquals(stripped)
       IN  /\ line' = stripped
           /\ IF stripped = <<>> \/ eq = -1
              THEN /\ pc' = "loop"
                   /\ UNCHANGED <<key, value, escaped_key, exc>>
              ELSE /\ key' = Slice(stripped, 0, eq)
                   /\ value' = SliceFrom(stripped, eq + 1)
                   /\ escaped_key' = ESCAPE_RE_sub(Slice(stripped, 0, eq))
                   /\ pc' = "dated"
                   /\ exc' = exc
    /\ UNCHANGED <<config_str, dated_fields, caller_version_fields,
                   version_fields, version_str, lines, config, valueVars,
                   diffVars, sortVars>>

\* Lines 192-203: take the next line, skip it when blank, match it
NextLine ==
    /\ pc = "loop"
    /\ index < Len(lines)
    /\ index' = index + 1
    /\ LET stripped == strip(lines[index + 1])
           eq == ParamEquals(stripped)
       IN  /\ line' = stripped
           /\ IF stripped = <<>>
              THEN /\ pc' = "loop"
                   /\ UNCHANGED <<key, value, escaped_key, exc>>
              ELSE IF eq = -1
              THEN /\ pc' = "raised"
                   /\ exc' = "ValueError"
                   /\ UNCHANGED <<key, value, escaped_key>>
              ELSE /\ key' = Slice(stripped, 0, eq)
                   /\ value' = SliceFrom(stripped, eq + 1)
                   /\ escaped_key' = ESCAPE_RE_sub(Slice(stripped, 0, eq))
                   /\ pc' = "dated"
                   /\ exc' = exc
    /\ UNCHANGED <<config_str, dated_fields, caller_version_fields,
                   version_fields, version_str, lines, config, valueVars,
                   diffVars, sortVars>>

\* Lines 204-206
MaskDate ==
    /\ pc = "dated"
    /\ value' = DateMasked(escaped_key, value, dated_fields)
    /\ pc' = "version"
    /\ UNCHANGED <<config_str, dated_fields, caller_version_fields,
                   version_fields, version_str, lines, index, line, key,
                   escaped_key, config, exc, valueVars, diffVars, sortVars>>

\* Lines 208-210
MaskVersion ==
    /\ pc = "version"
    /\ value' = VersionMasked(escaped_key, value, version_fields, version_str)
    /\ pc' = "assign"
    /\ UNCHANGED <<config_str, dated_fields, caller_version_fields,
                   version_fields, version_str, lines, index, line, key,
                   escaped_key, config, exc, valueVars, diffVars, sortVars>>

\* Line 212
Assign ==
    /\ pc = "assign"
    /\ LET assigned == assign_value(config, escaped_key, value) IN
       IF IsError(assigned)
       THEN /\ pc' = "raised"
            /\ exc' = assigned.kind
            /\ config' = config
       ELSE /\ pc' = "loop"
            /\ exc' = exc
            /\ config' = assigned
    /\ UNCHANGED <<config_str, dated_fields, caller_version_fields,
                   version_fields, version_str, lines, index, line, key, value,
                   escaped_key, valueVars, diffVars, sortVars>>

\* Lines 214-215
Return ==
    /\ pc = "loop"
    /\ index = Len(lines)
    /\ LET tree == json_round_trip(config) IN
       IF IsError(tree)
       THEN /\ pc' = "raised"
            /\ exc' = tree.kind
            /\ config' = config
       ELSE /\ pc' = "returned"
            /\ exc' = exc
            /\ config' = tree
    /\ UNCHANGED <<config_str, dated_fields, caller_version_fields,
                   version_fields, version_str, lines, index, line, key, value,
                   escaped_key, valueVars, diffVars, sortVars>>

NextConfig == Start \/ NextLine \/ MaskDate \/ MaskVersion \/ Assign \/ Return

(* Calls of parse_config.  A text is up to MaxLines lines joined by one    *)
(* line terminator.                                                        *)

MaxLines == 2

KeyLines ==
    { <<"a", ".", "b", "=", "1">>,
      <<"a", ".", "c", "=", "2">>,
      <<"a", "b", "=", "1">>,
      <<"a", "b", ".", "c", "=", "2">>,
      <<"a", "=", "1">>,
      <<"a", "=", "b", "=", "c">>,
      <<"a", ".">> \o JsonObject \o <<"=", "x">>,
      JsonObject \o <<".", "x", "=", "1">>,
      <<"a", "b", "=", "{", "b", BS, "=", "1", ",", SP, "a", BS, "=", "2", "}">>,
      <<"a", "c", "=", "[", "{", "b", BS, "=", "1", ",", SP, "a", BS, "=", "2", "}", "]">>,
      <<"a", "b", "=", "{", "a", "}">>,
      <<"a", "b", "=", "{">> \o TrueToken \o <<BS, "=", "1", "}">>,
      <<SP, SP>>,
      <<"a", "b">> }

DateText == <<"2", "0", "2", "3", "0", "1", "0", "1", "T",
              "1", "2", "0", "0", "0", "0", "Z">>
Foo == <<"f", "o", "o">>
Bar == <<"b", "a", "r">>
XY == <<"x", ".", "y">>
XW == <<"x", ".", "w">>
XColonY == <<"x", ":", "y">>
OneDotZero == <<"1", ".", "0">>

MaskLines ==
    { ManifestVersion \o <<"=">> \o OneDotZero,
      <<SP>> \o ManifestVersion \o <<"=">> \o OneDotZero,
      ManifestVersion \o <<"=">> \o OneDotZero \o <<SP>>,
      ManifestVersion \o <<"=", "2">>,
      ManifestVersion \o <<"=">>,
      ManifestWord \o <<"X">> \o VersionEquals \o OneDotZero,
      Foo \o <<"=", "v">> \o OneDotZero,
      Bar \o <<"=", "v">> \o OneDotZero,
      XY \o <<"=">> \o DateText,
      XW \o <<"=", "[", "1", ",", SP>> \o DateText \o <<"]">>,
      Bar \o <<"=">> \o DateText,
      <<"x", BS, ":", "y", "=">> \o DateText,
      <<"b", "a">> }

LineBreaks == {<<LF>>, <<CR, LF>>}
Texts(Lines) ==
    {Join(ls, br) : ls \in SeqsUpTo(Lines, MaxLines), br \in LineBreaks}

InitConfigWith(Lines, Dated, Versioned) ==
    /\ pc = "parse_config"
    /\ config_str \in Texts(Lines)
    /\ dated_fields \in Dated
    /\ caller_version_fields \in Versioned
    /\ version_fields = <<>> /\ version_str = NoVersion /\ lines = <<>>
    /\ index = 0 /\ line = <<>> /\ key = <<>> /\ value = <<>>
    /\ escaped_key = <<>> /\ config = None /\ exc = ""
    /\ IdleValue
    /\ IdleDiff
    /\ IdleSort

InitKeys == InitConfigWith(KeyLines, {<<>>}, {<<>>})
SpecKeys == InitKeys /\ [][NextConfig]_vars

InitMask == InitConfigWith(MaskLines, {<<>>, <<XY, XW, XColonY>>}, {<<>>, <<Foo>>})
SpecMask == InitMask /\ [][NextConfig]_vars

\* The step-by-step call and the one-evaluation form agree on the outcome
StepsAgreeWithCall ==
    LET outcome == parse_config(config_str, dated_fields, caller_version_fields) IN
    /\ pc = "returned" => config = outcome
    /\ pc = "raised" => outcome = Raise(exc)

----------------------------------------------------------------------------
(* Version tags: TAG_REGEX and sort_key of build-and-deploy-docs/action.py *)

\* sys.maxsize, at the value of a 32-bit build (2^63 - 1 on a 64-bit one);
\* it is only ever compared, and is above every number of the model's tags
maxsize == 2147483647

\* A group that took no part in the match (None)
NoGroup == <<"None">>
\* TAG_REGEX.match(s) is None
NoMatch == <<>>
RcMark == <<"-", "r", "c", ".">>

\* The end of the longest run of digits of s that starts at index i
RECURSIVE DigitsEnd(_, _)
DigitsEnd(s, i) ==
    IF i < Len(s) /\ IsDigit(s[i + 1]) THEN DigitsEnd(s, i + 1) ELSE i

\* TAG_REGEX.match(s).groups(), NoMatch when there is no match:
\* ^v(\d+)\.(\d+)\.(\d+)(?:-rc\.(\d+))?
TAG_REGEX_match(s) ==
    LET major_end == DigitsEnd(s, 1)
        minor_end == DigitsEnd(s, major_end + 1)
        patch_end == DigitsEnd(s, minor_end + 1)
        rc_end == DigitsEnd(s, patch_end + Len(RcMark))
    IN  IF /\ StartsWithAt(s, <<"v">>, 0)
           /\ major_end > 1
           /\ StartsWithAt(s, <<".">>, major_end)
           /\ minor_end > major_end + 1
           /\ StartsWithAt(s, <<".">>, minor_end)
           /\ patch_end > minor_end + 1
        THEN << Slice(s, 1, major_end),
                Slice(s, major_end + 1, minor_end),
                Slice(s, minor_end + 1, patch_end),
                IF /\ StartsWithAt(s, RcMark, patch_end)
                   /\ rc_end > patch_end + Len(RcMark)
                THEN Slice(s, patch_end + Len(RcMark), rc_end)
                ELSE NoGroup >>
        ELSE NoMatch

\* int(digits)
RECURSIVE int(_)
int(digits) ==
    IF digits = <<>> THEN 0
    ELSE 10 * int(SubSeq(digits, 1, Len(digits) - 1))
         + (ord(digits[Len(digits)]) - ord("0"))

\* The outcome of a sort_key call: the returned tuple, or the raised class
Key(items) == [raised |-> "", key |-> items]
KeyRaise(cls) == [raised |-> cls, key |-> <<>>]

\* The index sort_key reads the release candidate group at (line 53)
RcIndex == 4

\* sort_key(version_str, strings_high)
sort_key(version_str_, strings_high_) ==
    LET numbers == TAG_REGEX_match(version_str_) IN
    IF numbers = NoMatch
    THEN Key(<<IF strings_high_ THEN maxsize ELSE -1, version_str_>>)
    ELSE IF RcIndex >= Len(numbers) THEN KeyRaise("IndexError")
    ELSE Key(<<int(numbers[1]), int(numbers[2]), int(numbers[3]),
               IF numbers[RcIndex + 1] # NoGroup
               THEN int(numbers[RcIndex + 1]) ELSE maxsize>>)

(* Calls of sort_key, one for each string of a list, as max(tags,          *)
(* key=strings_low_key) and sorted(..., key=strings_high_key) make them.   *)

MaxTags == 2

V == <<"v">>
Dot == <<".">>
Rc(n) == RcMark \o int_str(n)
Version(major, minor, patch) ==
    V \o int_str(major) \o Dot \o int_str(minor) \o Dot \o int_str(patch)
Development == <<"d", "e", "v", "e", "l", "o", "p", "m", "e", "n", "t">>
TagStrings ==
    { Version(1, 2, 3),
      Version(1, 2, 4) \o Rc(1),
      Version(1, 2, 4) \o Rc(2),
      Version(1, 2, 4),
      Version(1, 10, 0),
      Version(2, 0, 0) \o Rc(10),
      Version(0, 0, 0),
      Development,
      <<"v", "1", ".", "2">>,
      <<"l", "a", "t", "e", "s", "t">> }

InitSort ==
    /\ pc = "sort_key"
    /\ tags \in UNION {[1..n -> TagStrings] : n \in 1..MaxTags}
    /\ strings_high \in BOOLEAN
    /\ sort_keys = <<>>
    /\ IdleValue
    /\ IdleDiff
    /\ IdleConfig

\* The key function called on the next string of the list
SortKey ==
    /\ pc = "sort_key"
    /\ Len(sort_keys) < Len(tags)
    /\ LET outcome == sort_key(tags[Len(sort_keys) + 1], strings_high) IN
       /\ sort_keys' = Append(sort_keys, outcome)
       /\ pc' = IF outcome.raised # "" THEN "raised"
                ELSE IF Len(sort_keys) + 1 = Len(tags) THEN "returned"
                ELSE "sort_key"
    /\ UNCHANGED <<tags, strings_high, valueVars, diffVars, configVars>>

NextSort == SortKey
SpecSort == InitSort /\ [][NextSort]_vars

----------------------------------------------------------------------------
(* Properties *)

IsListLiteral(s) == s # <<>> /\ s[1] = "[" /\ s[Len(s)] = "]"
IsMapLiteral(s) == s # <<>> /\ s[1] = "{" /\ s[Len(s)] = "}"

\* C1: in a list literal whose elements are separated by ", ", an element
\* that is a map literal parses to a Mapping at whatever position it stands,
\* never to a Scalar.
C1_MapElementsAreMappings ==
    pc = "returned" =>
        \A elems \in ElemSeqs :
            value_str = ListToken(elems) =>
                \A i \in 1..Len(elems) :
                    IsMapLiteral(elems[i]) =>
                        /\ parsed.kind = "list"
                        /\ i <= Len(parsed.items)
                        /\ parsed.items[i].kind = "dict"

\* C2: a key present on one side only of a Mapping nested under key K of
\* the root is reported by the root call at the full dotted path .K.key,
\* with the value on its own side and None on the other.
C2_NestedOneSidedKeyPath ==
    pc = "returned" /\ alpha.kind = "dict" /\ beta.kind = "dict" =>
        \A i \in 1..Len(alpha.keys) :
            LET K == alpha.keys[i]
                left == alpha.vals[i]
                right == IF HasKey(beta, K) THEN GetItem(beta, K) ELSE None
                at(k) == <<".">> \o K.str \o <<".">> \o k.str
            IN  left.kind = "dict" /\ right.kind = "dict" =>
                    /\ \A j \in 1..Len(left.keys) :
                          ~HasKey(right, left.keys[j]) =>
                              \E t \in 1..Len(results) :
                                  results[t] = Triple(at(left.keys[j]), left.vals[j], None)
                    /\ \A j \in 1..Len(right.keys) :
                          ~HasKey(left, right.keys[j]) =>
                              \E t \in 1..Len(results) :
                                  results[t] = Triple(at(right.keys[j]), None, right.vals[j])

\* The token reaches the scalar rule of parse_value (rule 6)
ReachesScalarRule(s) ==
    /\ ~CLOSURE_RE_match(s)
    /\ ~POINTER_RE_match(s)
    /\ ~IsListLiteral(s)
    /\ ~IsMapLiteral(s)
    /\ s \notin {TrueToken, FalseToken}

\* s without the backslashes that immediately precede a space, "=" or ":"
RECURSIVE WithoutEscapes(_)
WithoutEscapes(s) ==
    IF s = <<>> THEN <<>>
    ELSE IF Len(s) >= 2 /\ s[1] = BS /\ s[2] \in {SP, "=", ":"}
         THEN WithoutEscapes(Tail(s))
         ELSE <<s[1]>> \o WithoutEscapes(Tail(s))

\* C3: a token that reaches the scalar rule parses to the Scalar that is the
\* token with every backslash immediately before a space, "=" or ":"
\* removed, trimmed of surrounding whitespace.
C3_ScalarUnescaped ==
    pc = "returned" /\ ReachesScalarRule(value_str) =>
        parsed = Scalar(strip(WithoutEscapes(value_str)))

\* The node kind a well-formed token parses to
KindOfToken(s) ==
    IF IsListLiteral(s) THEN "list"
    ELSE IF IsMapLiteral(s) THEN "dict"
    ELSE IF s \in {TrueToken, FalseToken} THEN "bool"
    ELSE "str"

\* C4: a map literal is split into entries only at the ", " outside nested
\* brackets: the result is a Mapping with exactly the entries' keys and an
\* entry whose value is a list or map literal maps to a Sequence or Mapping.
C4_MapEntriesSplitAtTopLevel ==
    pc = "returned" =>
        \A entries \in EntrySeqs :
            value_str = MapToken(entries) /\ entries # <<>> =>
                /\ parsed.kind = "dict"
                /\ {parsed.keys[i] : i \in 1..Len(parsed.keys)}
                       = {Scalar(entries[i][1]) : i \in 1..Len(entries)}
                /\ \A i \in 1..Len(entries) :
                      (\A j \in (i + 1)..Len(entries) : entries[j][1] # entries[i][1])
                          => GetItem(parsed, Scalar(entries[i][1])).kind
                                 = KindOfToken(entries[i][2])

\* Some dict of the tree has the key json_object
RECURSIVE HasJsonObjectKey(_)
HasJsonObjectKey(node) ==
    IF node.kind = "dict"
    THEN \E i \in 1..Len(node.keys) :
            \/ node.keys[i] = Scalar(JsonObject)
            \/ HasJsonObjectKey(node.vals[i])
    ELSE IF node.kind = "list"
    THEN \E i \in 1..Len(node.items) : HasJsonObjectKey(node.items[i])
    ELSE FALSE

\* C5: the tree parse_config returns has no Mapping, at any depth, with the
\* key json_object, whether json_object was the last or an intermediate
\* segment of a line's key.
C5_NoJsonObjectKey ==
    pc = "returned" => ~HasJsonObjectKey(config)

\* 0-based index of the first "=" of l that no backslash precedes, -1 if none
FirstUnescapedEquals(l) ==
    LET Q == {i \in 0..(Len(l) - 1) :
                l[i + 1] = "=" /\ (i = 0 \/ l[i] # BS)}
    IN  IF Q = {} THEN -1 ELSE CHOOSE i \in Q : \A j \in Q : i <= j

\* C6: a non-blank line made of a non-empty key, an unescaped "=" and a
\* value is accepted, with the text before the first unescaped "=" as key
\* and everything after it as value.
C6_LineSplitAtFirstEquals ==
    LET eq == FirstUnescapedEquals(line) IN
    /\ pc = "dated" \/ (pc = "raised" /\ exc = "ValueError")
    /\ eq >= 1
    /\ \A k \in 1..eq : ~IsSpace(line[k])
    => /\ pc = "dated"
       /\ key = Slice(line, 0, eq)
       /\ value = SliceFrom(line, eq + 1)

\* The unescaped key parse_config reads line l with, <<>> for a line it
\* skips or rejects
LineKey(l) ==
    LET stripped == strip(l)
        eq == ParamEquals(stripped)
    IN  IF stripped = <<>> \/ eq = -1 THEN <<>>
        ELSE ESCAPE_RE_sub(Slice(stripped, 0, eq))

Orders(n) == {f \in [1..n -> 1..n] : \A i, j \in 1..n : i # j => f[i] # f[j]}

\* Two outcomes are the same: the same tree, or a failure both
SameOutcome(x, y) == IF IsError(x) \/ IsError(y) THEN IsError(x) /\ IsError(y) ELSE x = y

\* C7: for a text whose lines have pairwise distinct keys, every permutation
\* of the lines gives the same outcome as the text itself.
C7_LineOrderInsensitive ==
    pc \in {"returned", "raised"}
    /\ (\A i, j \in 1..Len(lines) : i # j => LineKey(lines[i]) # LineKey(lines[j]))
    => \A f \in Orders(Len(lines)) :
           SameOutcome(
               IF pc = "raised" THEN Raise(exc) ELSE config,
               parse_config(Join([i \in 1..Len(lines) |-> lines[f[i]]], <<LF>>),
                            dated_fields, caller_version_fields))

\* The input has a line parse_config reads as manifest.version=<v>, v not empty
HasManifestVersionLine ==
    \E i \in 1..Len(lines) :
        LET stripped == strip(lines[i])
            eq == ParamEquals(stripped)
        IN  /\ eq # -1
            /\ ESCAPE_RE_sub(Slice(stripped, 0, eq)) = ManifestVersion
            /\ SliceFrom(stripped, eq + 1) # <<>>

\* C8: when the input has a line read as manifest.version=<v> with v not
\* empty, manifest.version is the version sentinel in the returned tree.
C8_ManifestVersionMasked ==
    pc = "returned" /\ HasManifestVersionLine =>
        LET manifest == Scalar(ManifestWord)
            version == Scalar(<<"v", "e", "r", "s", "i", "o", "n">>)
        IN  /\ HasKey(config, manifest)
            /\ GetItem(config, manifest).kind = "dict"
            /\ HasKey(GetItem(config, manifest), version)
            /\ GetItem(GetItem(config, manifest), version) = Scalar(VersionSentinel)

\* C9: the version-masking step leaves the value text of a line as it is
\* unless the line's key is in version_fields or is manifest.version and
\* the input has a manifest.version line with a non-empty value.
C9_VersionMaskingFrame ==
    [][pc = "version"
       /\ ~(/\ InList(escaped_key, caller_version_fields) \/ escaped_key = ManifestVersion
            /\ HasManifestVersionLine)
       => value' = value]_vars

\* The value text of the current line as matched (group "value")
RawValue == SliceFrom(line, Len(key) + 1)

\* C10: after the date-masking step, the value of a line whose key (as
\* parse_config unescapes it) is in dated_fields has the sentinel at every
\* match of the date pattern and the raw text everywhere else, and the value
\* of any other line is the raw text; the masked text is what is parsed, so
\* the one-line text x.w=[1, <date>] with x.w listed returns the sentinel
\* inside the Sequence.
C10_DateMaskingScoped ==
    /\ pc = "version" =>
          IF InList(escaped_key, dated_fields)
          THEN /\ Len(value) = Len(RawValue)
               /\ \A p \in 0..Len(RawValue) :
                     DATE_RE_at(RawValue, p) =>
                         Slice(value, p, p + Len(DateSentinel)) = DateSentinel
               /\ \A i \in 1..Len(RawValue) :
                     (\A p \in 0..Len(RawValue) :
                         DATE_RE_at(RawValue, p) =>
                             ~(p < i /\ i <= p + Len(DateSentinel)))
                     => value[i] = RawValue[i]
          ELSE value = RawValue
    /\ pc = "returned" /\ Len(lines) = 1 /\ escaped_key = XW =>
          config = Mapping(<<Scalar(<<"x">>)>>,
                           <<Mapping(<<Scalar(<<"w">>)>>,
                                     <<Sequence(<<Scalar(<<"1">>),
                                                  Scalar(IF InList(XW, dated_fields)
                                                         THEN DateSentinel
                                                         ELSE DateText)>>)>>)>>)

\* A line with a listed key whose value holds a date inside a list literal
\* has been date-masked
C10_Witness ==
    /\ pc = "version"
    /\ InList(escaped_key, dated_fields)
    /\ IsListLiteral(RawValue)
    /\ \E p \in 0..Len(RawValue) : DATE_RE_at(RawValue, p)
    /\ value # RawValue

\* Some line of the text is the manifest.version line the search finds
ManifestLineFound == SearchVersion(config_str) # NoVersion

\* C11: a call of parse_config never changes the dated_fields and the
\* version_fields collections the caller passed in: no step of the call,
\* whether it ends in a return or in a raise and whether or not the text has
\* a manifest.version line, alters either of them.
C11_CallerFieldsUnchanged ==
    [][/\ dated_fields' = dated_fields
       /\ caller_version_fields' = caller_version_fields]_vars

\* A finished call that found the manifest line: the local copy has gained
\* manifest.version, the caller's list has not
C11_Witness ==
    /\ pc \in {"returned", "raised"}
    /\ ManifestLineFound
    /\ version_fields = Append(caller_version_fields, ManifestVersion)
    /\ ~InList(ManifestVersion, caller_version_fields)

\* The scan of a literal's body for "{" and "(": TRUE when a closing
\* character meets no open one or the wrong one, or one is still open at the
\* end
RECURSIVE NestingBroken(_, _, _)
NestingBroken(body, i, open) ==
    IF i > Len(body) THEN open # <<>>
    ELSE IF body[i] = "{" THEN NestingBroken(body, i + 1, <<"}">> \o open)
    ELSE IF body[i] = "(" THEN NestingBroken(body, i + 1, <<")">> \o open)
    ELSE IF body[i] \in {"}", ")"}
    THEN IF open = <<>> \/ Head(open) # body[i] THEN TRUE
         ELSE NestingBroken(body, i + 1, Tail(open))
    ELSE NestingBroken(body, i + 1, open)

Unbalanced(s) == NestingBroken(Slice(s, 1, Len(s) - 1), 1, <<>>)

\* C12: parse_value fails, returning no node, on every list literal and
\* every map literal whose "{" / "(" nesting is still open at the end of the
\* literal or is closed by a character that does not match the innermost
\* open one.
C12_UnbalancedLiteralFails ==
    (/\ pc = "returned"
     /\ IsListLiteral(value_str) \/ IsMapLiteral(value_str)
     /\ Unbalanced(value_str))
    => IsError(parsed)

\* The part of C12 about list literals
C12_UnbalancedListFails ==
    (pc = "returned" /\ IsListLiteral(value_str) /\ Unbalanced(value_str))
    => IsError(parsed)

\* C14: parse_value returns a node, and raises nothing, on every well-formed
\* token: text, booleans, closures, pointers, and balanced list and map
\* literals whose entries carry the escaped separator, the empty literals
\* [] and {} included (an empty Sequence and an empty Mapping).
C14_TotalOnWellFormed ==
    (pc = "returned" /\ value_str \in WellFormedTokens) =>
        /\ ~IsError(parsed)
        /\ value_str = <<"[", "]">> => parsed = Sequence(<<>>)
        /\ value_str = <<"{", "}">> => parsed = Mapping(<<>>, <<>>)

\* The lines of the text, and those that are neither blank nor key=value
TextLines == splitlines(config_str)
IsBlank(l) == strip(l) = <<>>
Malformed(l) == ~IsBlank(l) /\ ParamEquals(strip(l)) = -1
MalformedLines == {i \in 1..Len(TextLines) : Malformed(TextLines[i])}
FirstMalformed == CHOOSE i \in MalformedLines : \A j \in MalformedLines : i <= j
Finished == pc \in {"returned", "raised"}

\* The text with its blank lines left out
RECURSIVE NonBlank(_)
NonBlank(ls) ==
    IF ls = <<>> THEN <<>>
    ELSE IF IsBlank(Head(ls)) THEN NonBlank(Tail(ls))
    ELSE <<Head(ls)>> \o NonBlank(Tail(ls))

\* Blank lines are passed over: a text of blank lines only returns the empty
\* tree, and a text ends as it does without its blank lines
BlankLinesSkipped ==
    Finished =>
        /\ (\A i \in 1..Len(TextLines) : IsBlank(TextLines[i]))
               => (pc = "returned" /\ config = EmptyDict)
        /\ LET outcome == parse_config(Join(NonBlank(TextLines), <<LF>>),
                                       dated_fields, caller_version_fields)
           IN  IF pc = "returned" THEN config = outcome
               ELSE outcome = Raise(exc)

\* C13 as stated: when any non-blank line of the text, at any position, is
\* not of the key=value shape, parse_config raises the ValueError that
\* carries that line's text (the first such line) and returns no tree; blank
\* lines are skipped without error.
C13_MalformedLineRaises ==
    /\ BlankLinesSkipped
    /\ (Finished /\ MalformedLines # {}) =>
          /\ pc = "raised"
          /\ exc = "ValueError"
          /\ line = strip(TextLines[FirstMalformed])

\* C13, amended: when some non-blank line is not of the key=value shape the
\* call returns no tree: it raises at that line or before it, and when every
\* line before it was processed without an error it raises the ValueError
\* that carries that line's stripped text; blank lines are skipped without
\* error.
C13_FirstFailureRaises ==
    /\ BlankLinesSkipped
    /\ (Finished /\ MalformedLines # {}) =>
          /\ pc = "raised"
          /\ index <= FirstMalformed
          /\ index = FirstMalformed =>
                (exc = "ValueError" /\ line = strip(TextLines[FirstMalformed]))

\* The second line is the malformed one and the line before it was assigned
C13_Witness ==
    /\ pc = "raised"
    /\ exc = "ValueError"
    /\ MalformedLines = {2}
    /\ index = 2
    /\ line = strip(TextLines[2])
    /\ config # EmptyDict

\* The shape of a tree without the order of its keys: a Mapping as the set
\* of its entries, a Sequence as the sequence of its items
RECURSIVE Shape(_)
Shape(node) ==
    IF node.kind = "dict"
    THEN <<"dict", {<<node.keys[i].str, Shape(node.vals[i])>> :
                        i \in 1..Len(node.keys)}>>
    ELSE IF node.kind = "list"
    THEN <<"list", [i \in 1..Len(node.items) |-> Shape(node.items[i])]>>
    ELSE IF node.kind = "bool" THEN <<"bool", node.bool>>
    ELSE <<node.kind, node.str>>

StructurallyEqual(a, b) == Shape(a) = Shape(b)

Range(seq) == {seq[i] : i \in 1..Len(seq)}
HasPrefix(path, prefix) == StartsWithAt(path, prefix, 0)
\* The triples of the result whose path starts with prefix, in order, with
\* the prefix taken off
Under(prefix) ==
    LET sel == SelectSeq(results, LAMBDA t : HasPrefix(t.path, prefix))
    IN  [i \in 1..Len(sel) |->
            Triple(SliceFrom(sel[i].path, Len(prefix)), sel[i].before,
                   sel[i].after)]
KeyStep(k) == <<".">> \o k
IndexStep(i) == <<"[">> \o int_str(i) \o <<"]">>

\* C15: diff_json(a, b) is empty exactly when a and b are structurally
\* equal (Mappings compared without regard to key order); unequal trees
\* give at least one triple.
C15_EmptyIffEqual ==
    pc = "returned" => (results = <<>> <=> StructurallyEqual(alpha, beta))

\* Equal trees whose Mappings list their keys in different orders
C15_Witness ==
    /\ pc = "returned"
    /\ results = <<>>
    /\ alpha # beta
    /\ alpha.kind = "dict"
    /\ Len(alpha.keys) = 2

\* The places reached in both trees through keys and indices common to the
\* two sides where the nodes differ: of different kinds, or leaves of one
\* kind with different values.  Each place with its path and its two nodes.
RECURSIVE DifferingPlaces(_, _)
DifferingPlaces(a, b) ==
    IF a.kind = "dict" /\ b.kind = "dict"
    THEN UNION {{Triple(KeyStep(a.keys[i].str) \o t.path, t.before, t.after) :
                    t \in DifferingPlaces(a.vals[i], GetItem(b, a.keys[i]))} :
                i \in {j \in 1..Len(a.keys) : HasKey(b, a.keys[j])}}
    ELSE IF a.kind = "list" /\ b.kind = "list"
    THEN UNION {{Triple(IndexStep(i - 1) \o t.path, t.before, t.after) :
                    t \in DifferingPlaces(a.items[i], b.items[i])} :
                i \in 1..(IF Len(a.items) < Len(b.items) THEN Len(a.items)
                          ELSE Len(b.items))}
    ELSE IF a = b THEN {}
    ELSE {Triple(<<>>, a, b)}

KindMismatches ==
    {t \in DifferingPlaces(alpha, beta) : t.before.kind # t.after.kind}

\* C16: diff_json returns a result for every pair of trees; wherever the two
\* nodes at a path are of different kinds the result has exactly one triple
\* at that path, carrying the whole left node and the whole right node, and
\* no triple from below that path.
C16_KindMismatchOneTriple ==
    pc = "returned" =>
        /\ alpha.kind # beta.kind => results = <<Triple(<<>>, alpha, beta)>>
        /\ \A m \in KindMismatches :
              Under(m.path) = <<Triple(<<>>, m.before, m.after)>>

\* A non-empty Sequence against a non-empty Mapping two steps below the root
C16_Witness ==
    /\ pc = "returned"
    /\ \E m \in KindMismatches :
          /\ Len(m.path) >= 4
          /\ {m.before.kind, m.after.kind} = {"list", "dict"}
          /\ Len(m.before.items) + Len(m.before.keys) > 0
          /\ Len(m.after.items) + Len(m.after.keys) > 0
          /\ results = <<m>>

\* C17: for two Sequences of different lengths the elements are compared
\* index by index up to the longer one: an index i present on both sides
\* contributes the diff of the two elements under the path [i], an index
\* present only in the longer one contributes exactly one triple with path
\* [i], the element on its own side and None on the other.
C17_UnequalLengths ==
    (/\ pc = "returned"
     /\ alpha.kind = "list" /\ beta.kind = "list"
     /\ Len(alpha.items) # Len(beta.items)) =>
        LET la == Len(alpha.items)
            lb == Len(beta.items)
            longer == IF la > lb THEN la ELSE lb
            piece(i) ==
                IF i < la /\ i < lb
                THEN diff_json(alpha.items[i + 1], beta.items[i + 1])
                ELSE IF i < la
                THEN <<Triple(<<>>, alpha.items[i + 1], None)>>
                ELSE <<Triple(<<>>, None, beta.items[i + 1])>>
            at(n) == CHOOSE i \in 0..(longer - 1) :
                         HasPrefix(results[n].path, IndexStep(i))
        IN  /\ \A i \in 0..(longer - 1) : Under(IndexStep(i)) = piece(i)
            /\ \A n \in 1..Len(results) :
                  \E i \in 0..(longer - 1) :
                      HasPrefix(results[n].path, IndexStep(i))
            /\ \A n, m \in 1..Len(results) :
                  (n < m) => at(n) <= at(m)
            /\ (alpha = Sequence(<<Scalar(<<"1">>), Scalar(<<"2">>)>>)
                  /\ beta = Sequence(<<Scalar(<<"1">>)>>))
                 => results = <<Triple(IndexStep(1), Scalar(<<"2">>), None)>>

\* A longer left side whose common element differs too
C17_Witness ==
    /\ pc = "returned"
    /\ alpha.kind = "list" /\ beta.kind = "list"
    /\ Len(alpha.items) = 2 /\ Len(beta.items) = 1
    /\ Len(results) = 2
    /\ results[2] = Triple(IndexStep(1), alpha.items[2], None)

\* The keys of a Mapping as strings, and those missing from another Mapping
KeyStrs(node) == [i \in 1..Len(node.keys) |-> node.keys[i].str]
KeysOnlyIn(a, b) ==
    SelectSeq(KeyStrs(a), LAMBDA k : ~HasKey(b, Scalar(k)))
\* The position in the result of the first triple equal to t, 0 if none
PositionOf(t) ==
    IF t \in Range(results)
    THEN CHOOSE n \in 1..Len(results) :
             results[n] = t /\ \A m \in 1..(n - 1) : results[m] # t
    ELSE 0
Occurrences(t) == Cardinality({n \in 1..Len(results) : results[n] = t})

\* C18: for two Mappings at the root, every key of a alone yields exactly
\* one triple (key, a[key], None) and every key of b alone exactly one
\* triple (key, None, b[key]), the path being the bare key; the triples of
\* the keys of a (alone or common) come first, in a's key order, then the
\* keys of b alone in b's key order.
C18_OneSidedKeys ==
    (pc = "returned" /\ alpha.kind = "dict" /\ beta.kind = "dict") =>
        LET onlyA == KeysOnlyIn(alpha, beta)
            onlyB == KeysOnlyIn(beta, alpha)
            left(k) == Triple(k, GetItem(alpha, Scalar(k)), None)
            right(k) == Triple(k, None, GetItem(beta, Scalar(k)))
            \* the place of a key of alpha in the result: its own triple,
            \* or the first triple below it
            placeA(i) ==
                LET k == KeyStrs(alpha)[i] IN
                IF HasKey(beta, Scalar(k))
                THEN {n \in 1..Len(results) :
                         HasPrefix(results[n].path, KeyStep(k))}
                ELSE {n \in 1..Len(results) : results[n] = left(k)}
            placeB(i) == {n \in 1..Len(results) : results[n] = right(onlyB[i])}
        IN  /\ \A i \in 1..Len(onlyA) : Occurrences(left(onlyA[i])) = 1
            /\ \A i \in 1..Len(onlyB) : Occurrences(right(onlyB[i])) = 1
            /\ \A i, j \in 1..Len(alpha.keys) :
                  (i < j) => \A n \in placeA(i), m \in placeA(j) : n < m
            /\ \A i, j \in 1..Len(onlyB) :
                  (i < j) => \A n \in placeB(i), m \in placeB(j) : n < m
            /\ \A i \in 1..Len(alpha.keys), j \in 1..Len(onlyB) :
                  \A n \in placeA(i), m \in placeB(j) : n < m
            /\ \A n \in 1..Len(results) :
                  \/ \E i \in 1..Len(alpha.keys) : n \in placeA(i)
                  \/ \E j \in 1..Len(onlyB) : n \in placeB(j)

\* A key of a alone, then a key of b alone
C18_Witness ==
    /\ pc = "returned"
    /\ alpha.kind = "dict" /\ beta.kind = "dict"
    /\ KeyStrs(alpha) = <<(<<"k">>)>> /\ KeyStrs(beta) = <<(<<"a">>)>>
    /\ Len(results) = 2
    /\ results[1] = Triple(<<"k">>, GetItem(alpha, Scalar(<<"k">>)), None)
    /\ results[2] = Triple(<<"a">>, None, GetItem(beta, Scalar(<<"a">>)))

\* C19: when two trees differ in the value of a node reached in both
\* through a chain of map keys and sequence indices, the result has a triple
\* whose path is the concatenation, from the root, of ".key" for each map
\* step and "[index]" for each sequence step, and which carries the two
\* differing values.
C19_PathIsChain ==
    pc = "returned" => DifferingPlaces(alpha, beta) \subseteq Range(results)

\* A difference three steps down, through keys and an index
C19_Witness ==
    /\ pc = "returned"
    /\ \E t \in DifferingPlaces(alpha, beta) :
          /\ t.path \in {<<".", "k", "[", "0", "]", ".", "a">>,
                          <<".", "k", ".", "a", "[", "1", "]">>}
          /\ t.before.kind = "str" /\ t.after.kind = "str"
          /\ t \in Range(results)

\* Every Mapping of the tree, at every depth, has str keys in strictly
\* ascending order
RECURSIVE KeysSorted(_)
KeysSorted(node) ==
    IF node.kind = "dict"
    THEN /\ \A i \in 1..Len(node.keys) : node.keys[i].kind = "str"
         /\ \A i \in 1..(Len(node.keys) - 1) :
               StrLess(node.keys[i].str, node.keys[i + 1].str)
         /\ \A i \in 1..Len(node.vals) : KeysSorted(node.vals[i])
    ELSE IF node.kind = "list"
    THEN \A i \in 1..Len(node.items) : KeysSorted(node.items[i])
    ELSE TRUE

\* C20: in the tree parse_config returns, the keys of every Mapping at every
\* depth, those parsed from map literals and those nested inside Sequences
\* included, are strings and iterate in ascending sorted order, whatever the
\* order in which the input presented them.
C20_KeysSortedStrings ==
    pc = "returned" => KeysSorted(config)

\* Lines given in descending key order, the first one a Sequence holding a
\* map literal with its keys in descending order
C20_Witness ==
    /\ pc = "returned"
    /\ Len(lines) = 2
    /\ HasPrefix(lines[1], <<"a", "c", "=", "[", "{", "b">>)
    /\ HasPrefix(lines[2], <<"a", "b", "=">>)
    /\ KeyStrs(config) = <<(<<"a", "b">>), (<<"a", "c">>)>>
    /\ config.vals[2].kind = "list"
    /\ KeyStrs(config.vals[2].items[1]) = <<(<<"a">>), (<<"b">>)>>

\* The tags of the form vMAJOR.MINOR.PATCH with an optional -rc.N, over the
\* numbers the model's tags use, each with its rank: major, minor, patch,
\* then 0 and N for a release candidate, 1 and 0 without one
TagNumbers == {0, 1, 2, 3, 4, 10}
VersionRanks ==
    {<<Version(ma, mi, pa), <<ma, mi, pa, 1, 0>>>> :
        ma \in TagNumbers, mi \in TagNumbers, pa \in TagNumbers}
    \cup {<<Version(ma, mi, pa) \o Rc(n), <<ma, mi, pa, 0, n>>>> :
            ma \in TagNumbers, mi \in TagNumbers, pa \in TagNumbers,
            n \in TagNumbers}
IsVersionTag(s) == \E r \in VersionRanks : r[1] = s
RankOf(s) == (CHOOSE r \in VersionRanks : r[1] = s)[2]

\* Lexicographic order of two sequences of integers
RECURSIVE LexLess(_, _)
LexLess(a, b) ==
    IF b = <<>> THEN FALSE
    ELSE IF a = <<>> THEN TRUE
    ELSE IF a[1] = b[1] THEN LexLess(Tail(a), Tail(b))
    ELSE a[1] < b[1]

\* a < b for two keys sort_key returns: tuples of four integers, or of an
\* integer and a str (a str against an integer does not compare)
TupleLess(a, b) ==
    IF a[1] # b[1] THEN a[1] < b[1]
    ELSE IF Len(a) = 2 /\ Len(b) = 2 THEN StrLess(a[2], b[2])
    ELSE IF Len(a) = 4 /\ Len(b) = 4 THEN LexLess(a, b)
    ELSE FALSE

\* C21: sort_key returns a key for every tag vMAJOR.MINOR.PATCH[-rc.N], and
\* under the keys the tags order by major, minor, patch and then release
\* candidate, a tag without release candidate above every release candidate
\* of its version; a string that is no version tag is below every version
\* tag when strings_high is False and above every one when it is True.
C21_SortKeyOrdersTags ==
    pc \in {"returned", "raised"} =>
        /\ pc = "returned"
        /\ \A i, j \in 1..Len(tags) :
              LET ki == sort_keys[i].key
                  kj == sort_keys[j].key
              IN  /\ (IsVersionTag(tags[i]) /\ IsVersionTag(tags[j])) =>
                        (TupleLess(ki, kj)
                            <=> LexLess(RankOf(tags[i]), RankOf(tags[j])))
                  /\ (~IsVersionTag(tags[i]) /\ IsVersionTag(tags[j])) =>
                        IF strings_high THEN TupleLess(kj, ki)
                        ELSE TupleLess(ki, kj)

\* The element sequences of the model whose elements are not themselves
\* list literals, and the one such sequence a list literal is joined from
PlainElemSeqs ==
    {elems \in ElemSeqs : \A i \in 1..Len(elems) : ~IsListLiteral(elems[i])}
ElementsOf(s) == {elems \in PlainElemSeqs : s = ListToken(elems)}

\* C22: a list literal of n >= 1 non-empty elements separated by ", " at
\* top level parses to a Sequence of exactly n nodes, whatever the length of
\* each element (a single one-character element and a one-character last
\* element included); only [] parses to the empty Sequence.
C22_ListHasEveryElement ==
    pc = "returned" =>
        /\ \A elems \in ElementsOf(value_str) :
              elems # <<>> =>
                  /\ parsed.kind = "list"
                  /\ Len(parsed.items) = Len(elems)
        /\ (IsListLiteral(value_str) /\ parsed = Sequence(<<>>))
              => value_str = <<"[", "]">>

\* The node a token subject to normalization is to parse to
Normalized(token) ==
    IF token = ClosureToken THEN Scalar(ClosureValue)
    ELSE IF token = TrueToken THEN Bool(TRUE)
    ELSE IF token = FalseToken THEN Bool(FALSE)
    ELSE Scalar((CHOOSE p \in PointerPrefixes : token = p \o Address)
                \o dec0ded)
NormalizedTokens == SpecialTokens \cup {TrueToken, FalseToken}

\* C23: a closure token parses to the scalar closure(), a pointer token to
\* its prefix followed by dec0ded, and true / false to a Bool, both as the
\* whole value and as the element at any position, first or later, of a
\* list literal whose elements are separated by ", ".
C23_NormalizedAtAnyPosition ==
    pc = "returned" =>
        /\ value_str \in NormalizedTokens => parsed = Normalized(value_str)
        /\ \A elems \in ElementsOf(value_str) :
              \A i \in 1..Len(elems) :
                  elems[i] \in NormalizedTokens =>
                      /\ parsed.kind = "list"
                      /\ i <= Len(parsed.items)
                      /\ parsed.items[i] = Normalized(elems[i])

\* The part of C23 about the whole value and the first element
C23_NormalizedWholeOrFirst ==
    pc = "returned" =>
        /\ value_str \in NormalizedTokens => parsed = Normalized(value_str)
        /\ \A elems \in ElementsOf(value_str) :
              (elems # <<>> /\ elems[1] \in NormalizedTokens) =>
                  /\ parsed.kind = "list"
                  /\ parsed.items # <<>>
                  /\ parsed.items[1] = Normalized(elems[1])

\* The triples of a result with before and after exchanged
Exchanged(res) ==
    [n \in 1..Len(res) |-> Triple(res[n].path, res[n].after, res[n].before)]
\* Two lists hold the same triples the same number of times
CountIn(res, t) == Cardinality({n \in 1..Len(res) : res[n] = t})
SameTriples(r1, r2) ==
    /\ Len(r1) = Len(r2)
    /\ \A n \in 1..Len(r1) : CountIn(r1, r1[n]) = CountIn(r2, r1[n])

\* C24: diff_json(b, a) holds exactly the triples of diff_json(a, b) with
\* before and after exchanged, the same paths and the same number of
\* times, in whatever order; and the call leaves a and b as they were.
C24_SymmetricUpToSides ==
    [][pc' = "returned" =>
          /\ alpha' = alpha /\ beta' = beta
          /\ SameTriples(Exchanged(results'), diff_json(beta', alpha'))]_vars

\* Two Mappings whose one-sided keys come out in a different order when the
\* sides are exchanged
C24_Witness ==
    /\ pc = "returned"
    /\ Len(results) = 2
    /\ results[1].after = None /\ results[2].before = None
    /\ Exchanged(results) # diff_json(beta, alpha)
    /\ SameTriples(Exchanged(results), diff_json(beta, alpha))

====
